---- MODULE Spec2Model ----
(***************************************************************************)
(* Model of cmd/server/connectlambda.go: the translation of an API-gateway *)
(* proxy envelope into a net/http request, the ResponseBuffer that records *)
(* what the wrapped handler writes, and the rendering of the outbound      *)
(* envelope.  Go strings and byte slices are sequences of byte values      *)
(* (0..255); header values and log lines, which are only ever compared     *)
(* with each other, are TLA+ strings.                                      *)
(***************************************************************************)
EXTENDS Integers, Sequences, FiniteSets, TLC

(***************************************************************************)
(* Bounds of the model.                                                    *)
(***************************************************************************)
\* Number of ResponseWriter calls the wrapped handler performs at most.
MaxOps == 3

\* Number of method calls made on a ResponseBuffer taken on its own.
MaxBufferOps == 4

\* Number of invocations that run at the same time on one handler value.
NumInvocations == 2

(***************************************************************************)
(* Text constants of the source, as byte sequences.                        *)
(***************************************************************************)
\* "could not decode body"
MsgCouldNotDecodeBody ==
    <<99, 111, 117, 108, 100, 32, 110, 111, 116, 32, 100, 101, 99, 111, 100,
      101, 32, 98, 111, 100, 121>>

\* "could not create request, check url and http method"
MsgCouldNotCreateRequest ==
    <<99, 111, 117, 108, 100, 32, 110, 111, 116, 32, 99, 114, 101, 97, 116,
      101, 32, 114, 101, 113, 117, 101, 115, 116, 44, 32, 99, 104, 101, 99,
      107, 32, 117, 114, 108, 32, 97, 110, 100, 32, 104, 116, 116, 112, 32,
      109, 101, 116, 104, 111, 100>>

\* "internal server error"
MsgInternalServerError ==
    <<105, 110, 116, 101, 114, 110, 97, 108, 32, 115, 101, 114, 118, 101,
      114, 32, 101, 114, 114, 111, 114>>

\* "Content-Type"
ContentTypeKey == <<67, 111, 110, 116, 101, 110, 116, 45, 84, 121, 112, 101>>

\* "GET"
MethodGet == <<71, 69, 84>>

StatusOK == 200
StatusBadRequest == 400
StatusInternalServerError == 500

LogDecode == "could not decode body as base64"
LogCreateRequest == "could not create request : "
LogNoWrite == "HTTP handler returned without writing a header or body"

(***************************************************************************)
(* encoding/base64, StdEncoding (padded, non-strict).                      *)
(***************************************************************************)
PadChar == 61

\* The character of the standard alphabet for a 6-bit value.
EncodeChar(v) ==
    IF v < 26 THEN 65 + v
    ELSE IF v < 52 THEN 97 + (v - 26)
    ELSE IF v < 62 THEN 48 + (v - 52)
    ELSE IF v = 62 THEN 43
    ELSE 47

\* The 6-bit value of a character, or -1 when it is not in the alphabet.
DecodeChar(c) ==
    IF c >= 65 /\ c <= 90 THEN c - 65
    ELSE IF c >= 97 /\ c <= 122 THEN c - 97 + 26
    ELSE IF c >= 48 /\ c <= 57 THEN c - 48 + 52
    ELSE IF c = 43 THEN 62
    ELSE IF c = 47 THEN 63
    ELSE -1

RECURSIVE EncodeToString(_)
EncodeToString(bs) ==
    IF Len(bs) = 0 THEN <<>>
    ELSE IF Len(bs) = 1 THEN
        LET v == bs[1] * 65536
        IN  <<EncodeChar(v \div 262144), EncodeChar((v \div 4096) % 64),
              PadChar, PadChar>>
    ELSE IF Len(bs) = 2 THEN
        LET v == bs[1] * 65536 + bs[2] * 256
        IN  <<EncodeChar(v \div 262144), EncodeChar((v \div 4096) % 64),
              EncodeChar((v \div 64) % 64), PadChar>>
    ELSE
        LET v == bs[1] * 65536 + bs[2] * 256 + bs[3]
        IN  <<EncodeChar(v \div 262144), EncodeChar((v \div 4096) % 64),
              EncodeChar((v \div 64) % 64), EncodeChar(v % 64)>>
            \o EncodeToString(SubSeq(bs, 4, Len(bs)))

\* The decoder skips carriage returns and line feeds.
StripNewlines(s) == SelectSeq(s, LAMBDA c : c # 13 /\ c # 10)

\* The number of data characters of a final quantum, 0 when it is malformed:
\* xxxx, xxx= and xx== are the only accepted shapes.
QuantumData(q) ==
    IF DecodeChar(q[1]) < 0 \/ DecodeChar(q[2]) < 0 THEN 0
    ELSE IF q[3] = PadChar THEN (IF q[4] = PadChar THEN 2 ELSE 0)
    ELSE IF DecodeChar(q[3]) < 0 THEN 0
    ELSE IF q[4] = PadChar THEN 3
    ELSE IF DecodeChar(q[4]) < 0 THEN 0
    ELSE 4

RECURSIVE DecodeQuanta(_)
\* [ok, bytes] for a newline-free text: ok is FALSE on a CorruptInputError.
DecodeQuanta(s) ==
    IF Len(s) = 0 THEN [ok |-> TRUE, bytes |-> <<>>]
    ELSE IF Len(s) < 4 THEN [ok |-> FALSE, bytes |-> <<>>]
    ELSE
        LET q == SubSeq(s, 1, 4)
            n == QuantumData(q)
            last == Len(s) = 4
            v == DecodeChar(q[1]) * 262144 + DecodeChar(q[2]) * 4096
                 + (IF n >= 3 THEN DecodeChar(q[3]) * 64 ELSE 0)
                 + (IF n >= 4 THEN DecodeChar(q[4]) ELSE 0)
            out == IF n = 4 THEN <<v \div 65536, (v \div 256) % 256, v % 256>>
                   ELSE IF n = 3 THEN <<v \div 65536, (v \div 256) % 256>>
                   ELSE <<v \div 65536>>
        IN  IF n = 0 \/ (n < 4 /\ ~last) THEN [ok |-> FALSE, bytes |-> <<>>]
            ELSE LET rest == DecodeQuanta(SubSeq(s, 5, Len(s)))
                 IN  [ok |-> rest.ok, bytes |-> out \o rest.bytes]

DecodeString(s) == DecodeQuanta(StripNewlines(s))

(***************************************************************************)
(* net/http, net/textproto and net/url as far as NewRequestWithContext and *)
(* Header use them.                                                        *)
(***************************************************************************)
IsLetter(c) == (c >= 65 /\ c <= 90) \/ (c >= 97 /\ c <= 122)

IsDigit(c) == c >= 48 /\ c <= 57

\* httpguts.IsTokenRune: the characters a method or a header name may hold.
IsTokenChar(c) ==
    \/ IsLetter(c)
    \/ IsDigit(c)
    \/ c \in {33, 35, 36, 37, 38, 39, 42, 43, 45, 46, 94, 95, 96, 124, 126}

\* net/http validMethod.
ValidMethod(m) == Len(m) > 0 /\ \A i \in 1..Len(m) : IsTokenChar(m[i])

ToUpper(c) == IF c >= 97 /\ c <= 122 THEN c - 32 ELSE c

ToLower(c) == IF c >= 65 /\ c <= 90 THEN c + 32 ELSE c

\* textproto.CanonicalMIMEHeaderKey: a key holding a non-token character is
\* returned unchanged; otherwise the first letter and every letter after a
\* hyphen is upper-cased and the others are lower-cased.
CanonicalMIMEHeaderKey(k) ==
    IF \E i \in 1..Len(k) : ~IsTokenChar(k[i]) THEN k
    ELSE [i \in 1..Len(k) |->
            IF i = 1 \/ k[i - 1] = 45 THEN ToUpper(k[i]) ELSE ToLower(k[i])]

IsHex(c) == IsDigit(c) \/ (c >= 65 /\ c <= 70) \/ (c >= 97 /\ c <= 102)

\* Index of the first occurrence of c in s, Len(s) + 1 when there is none.
IndexOf(s, c) ==
    IF \E i \in 1..Len(s) : s[i] = c
    THEN CHOOSE i \in 1..Len(s) : s[i] = c /\ \A j \in 1..(i - 1) : s[j] # c
    ELSE Len(s) + 1

\* url.Parse for a reference without scheme and authority: "ok" or the error.
\* The fragment and the query are cut off first; the path must unescape.
ParseURL(u) ==
    LET nofrag == SubSeq(u, 1, IndexOf(u, 35) - 1)
        path == SubSeq(nofrag, 1, IndexOf(nofrag, 63) - 1)
        segment == SubSeq(path, 1, IndexOf(path, 47) - 1)
    IN  IF \E i \in 1..Len(u) : u[i] < 32 \/ u[i] = 127
        THEN "invalid control character in URL"
        ELSE IF Len(nofrag) > 0 /\ nofrag[1] = 58
        THEN "missing protocol scheme"
        ELSE IF (Len(path) = 0 \/ path[1] # 47) /\ IndexOf(segment, 58) <= Len(segment)
        THEN "first path segment in URL cannot contain colon"
        ELSE IF \E i \in 1..Len(path) :
                    /\ path[i] = 37
                    /\ (i + 2 > Len(path) \/ ~IsHex(path[i + 1]) \/ ~IsHex(path[i + 2]))
        THEN "invalid URL escape"
        ELSE "ok"

\* An empty header map.
EmptyHeader == [k \in {} |-> <<>>]

\* http.Header.Add: appends to the values of the canonical key.
HeaderAdd(h, k, v) ==
    LET ck == CanonicalMIMEHeaderKey(k)
    IN  IF ck \in DOMAIN h THEN [h EXCEPT ![ck] = Append(@, v)]
        ELSE h @@ (ck :> <<v>>)

\* http.Header.Set: replaces the values of the canonical key.
HeaderSet(h, k, v) ==
    LET ck == CanonicalMIMEHeaderKey(k)
    IN  [x \in DOMAIN h \cup {ck} |-> IF x = ck THEN <<v>> ELSE h[x]]

\* http.Header.Get on a possibly nil header: the first value of the canonical
\* key, "" when the header is nil or has no such value.
HeaderGet(hdr, k) ==
    LET ck == CanonicalMIMEHeaderKey(k)
    IN  IF hdr.isNil THEN ""
        ELSE IF ck \in DOMAIN hdr.m /\ Len(hdr.m[ck]) > 0 THEN hdr.m[ck][1]
        ELSE ""

\* A nil http.Header and an allocated one.
NilHeader == [isNil |-> TRUE, m |-> EmptyHeader]

MakeHeader(m) == [isNil |-> FALSE, m |-> m]

\* http.NewRequestWithContext: an empty method means GET; an invalid method
\* or a URL that does not parse is an error.
NewRequestWithContext(method, url, body) ==
    LET m == IF Len(method) = 0 THEN MethodGet ELSE method
    IN  IF ~ValidMethod(m)
        THEN [err |-> "net/http: invalid method", req |-> <<>>]
        ELSE IF ParseURL(url) # "ok"
        THEN [err |-> ParseURL(url), req |-> <<>>]
        ELSE [err |-> "",
              req |-> [Method |-> m, URL |-> url,
                       Header |-> EmptyHeader, Body |-> body]]

(***************************************************************************)
(* ResponseBuffer and the outbound envelope.                               *)
(***************************************************************************)
\* The zero value &ResponseBuffer{}.
NewResponseBuffer ==
    [statusCode |-> 0, header |-> NilHeader, buf |-> <<>>, wroteHeader |-> FALSE]

\* errorResponse with the base64 flag set, as the rendering of any other
\* text/plain response would have it.
errorResponseFlagged(status, msg) ==
    [Base64 |-> TRUE,
     Status |-> status,
     Header |-> MakeHeader(ContentTypeKey :> <<"text/plain">>),
     Body   |-> msg]


errorResponse(status, msg) ==
    [Base64 |-> FALSE,
     Status |-> status,
     Header |-> MakeHeader(ContentTypeKey :> <<"text/plain">>),
     Body   |-> msg]

\* Header that allocates a new header set on every access.
HeaderAlwaysFresh(o) == [o EXCEPT !.header = MakeHeader(EmptyHeader)]

\* ResponseBuffer.Header: the buffer after the call; the map it returns is
\* the buffer's own header field.
Header(o) ==
    IF o.header.isNil THEN [o EXCEPT !.header = MakeHeader(EmptyHeader)] ELSE o

\* WriteHeader without the wroteHeader guard: the last call wins.
WriteHeaderLastWins(o, statusCode) ==
    [o EXCEPT !.statusCode = statusCode, !.wroteHeader = TRUE]


WriteHeader(o, statusCode) ==
    IF o.wroteHeader THEN o
    ELSE [o EXCEPT !.statusCode = statusCode, !.wroteHeader = TRUE]

\* Write without the second check of the status.
WriteWithoutSafetyNet(o, bytes) ==
    LET o1 == IF ~o.wroteHeader THEN WriteHeader(o, StatusOK) ELSE o
    IN  [o1 EXCEPT !.buf = @ \o bytes]

\* Write that only fills in an unset status and does not commit the header.
WriteWithoutCommit(o, bytes) ==
    LET o2 == IF o.statusCode = 0 THEN [o EXCEPT !.statusCode = StatusOK] ELSE o
    IN  [o2 EXCEPT !.buf = @ \o bytes]


Write(o, bytes) ==
    LET o1 == IF ~o.wroteHeader THEN WriteHeader(o, StatusOK) ELSE o
        o2 == IF o1.statusCode = 0 THEN [o1 EXCEPT !.statusCode = StatusOK] ELSE o1
    IN  [o2 EXCEPT !.buf = @ \o bytes]

\* Rendering that encodes the body on the wrong branch.
ToLambdaProxyResponseSwapped(o) ==
    LET useBase64 == HeaderGet(o.header, ContentTypeKey) # "application/json"
        body == IF useBase64 THEN o.buf ELSE EncodeToString(o.buf)
    IN  [Base64 |-> useBase64,
         Status |-> o.statusCode,
         Header |-> o.header,
         Body   |-> body]

\* Rendering that takes every JSON media type, parameters included, as text.
ToLambdaProxyResponseAnyJson(o) ==
    LET useBase64 == HeaderGet(o.header, ContentTypeKey)
                        \notin {"application/json", "application/json; charset=utf-8"}
        body == IF useBase64 THEN EncodeToString(o.buf) ELSE o.buf
    IN  [Base64 |-> useBase64,
         Status |-> o.statusCode,
         Header |-> o.header,
         Body   |-> body]


ToLambdaProxyResponse(o) ==
    LET useBase64 == HeaderGet(o.header, ContentTypeKey) # "application/json"
        body == IF useBase64 THEN EncodeToString(o.buf) ELSE o.buf
    IN  [Base64 |-> useBase64,
         Status |-> o.statusCode,
         Header |-> o.header,
         Body   |-> body]

\* A rendering that reads the buffer empty.
RenderingDraining(o) ==
    [buffer |-> [o EXCEPT !.buf = <<>>], envelope |-> ToLambdaProxyResponse(o)]

\* A call of ToLambdaProxyResponse: the receiver after the call, which the
\* method only reads, and the envelope returned.
Rendering(o) ==
    [buffer |-> o, envelope |-> ToLambdaProxyResponse(o)]

(***************************************************************************)
(* Inputs.                                                                 *)
(***************************************************************************)
\* Header names "x" and "X" (one canonical key) and the lower-case
\* "content-type".
KeyLowerX == <<120>>

KeyUpperX == <<88>>

KeyLowerContentType ==
    <<99, 111, 110, 116, 101, 110, 116, 45, 116, 121, 112, 101>>

\* Body texts: "aGk=" (base64 of "hi"), "aGk" (truncated quantum),
\* "aR" LF "==" (line break and non-zero trailing bits), "a b".
Bodies ==
    {<<97, 71, 107, 61>>, <<97, 71, 107>>, <<97, 82, 10, 61, 61>>, <<97, 32, 98>>}

\* "", "POST", "PO ST"
Methods == {<<>>, <<80, 79, 83, 84>>, <<80, 79, 32, 83, 84>>}

\* "/a?q=1", "/%zz"
Paths == {<<47, 97, 63, 113, 61, 49>>, <<47, 37, 122, 122>>}

SingleHeaders ==
    {EmptyHeader, (KeyLowerX :> "1") @@ (KeyUpperX :> "0")}

MultiHeaders ==
    {EmptyHeader, (KeyUpperX :> <<"2", "3">>) @@ (KeyLowerX :> <<"1">>)}

\* Envelopes vary the body and its flag without headers, or the header maps
\* around the flagged body "aGk=": the body is decoded (lines 124-134) and the
\* headers are copied (lines 144-152) by steps that share no data.
ProxyRequests ==
    {r \in [Path : Paths, HttpMethod : Methods, Headers : SingleHeaders,
            MultiValueHeaders : MultiHeaders, Body : Bodies, Base64 : BOOLEAN] :
        \/ r.Headers = EmptyHeader /\ r.MultiValueHeaders = EmptyHeader
        \/ r.Body = <<97, 71, 107, 61>> /\ r.Base64}

\* What the wrapped handler may pass to the ResponseWriter.
StatusCodes == {0, 200, 404}

\* "", "hi", and three bytes outside ASCII text
WriteArgs == {<<>>, <<104, 105>>, <<0, 255, 16>>}

ContentTypes ==
    {"application/json", "text/plain", "application/json; charset=utf-8"}

\* A value meaning that no envelope has been returned yet.
NoResponse ==
    [Base64 |-> FALSE, Status |-> -1, Header |-> NilHeader, Body |-> <<>>]

NoRequest ==
    [Method |-> <<>>, URL |-> <<>>, Header |-> EmptyHeader, Body |-> <<>>]

\* All orders in which a range loop may visit the keys of a map.
Orders(S) ==
    {f \in [1..Cardinality(S) -> S] : \A i, j \in 1..Cardinality(S) : f[i] = f[j] => i = j}

(***************************************************************************)
(* State of one invocation of handleLambdaReq.                             *)
(***************************************************************************)
VARIABLES
    pc,        \* position in handleLambdaReq
    preq,      \* the inbound envelope
    bs,        \* the decoded body bytes
    req,       \* the request built by NewRequestWithContext
    buf,       \* the ResponseBuffer handed to the handler
    resp,      \* the returned envelope
    err,       \* the returned error ("" is nil)
    logs,      \* the lines passed to h.log
    served,    \* number of calls of h.mux.ServeHTTP
    calls,     \* the ResponseWriter calls of the handler, in order
    outcome,   \* the return statement taken
    \* a ResponseBuffer on its own, under any sequence of method calls
    rb,        \* the ResponseBuffer
    rendered,  \* the envelope last produced by ToLambdaProxyResponse
    rops,      \* the method calls made on the buffer, in order
    \* process start
    environ,   \* the environment variables of the process
    spc,       \* position in Start
    config,    \* the Config returned by ConfigFromEnv
    startErr,  \* the error returned by ConfigFromEnv and by Start
    transport, \* the transport started: lambda.Start or http.ListenAndServe
    \* concurrent invocations on one handler value
    inv,       \* the local variables of each invocation
    heap,      \* the allocated ResponseBuffers, by address
    sink       \* the lines passed to the shared h.log

invocationVars == <<pc, preq, bs, req, buf, resp, err, logs, served, calls, outcome>>

bufferVars == <<rb, rendered, rops>>

startVars == <<environ, spc, config, startErr, transport>>

concurrentVars == <<inv, heap, sink>>

vars == <<invocationVars, bufferVars, startVars, concurrentVars>>

\* The parts of the state a specification does not use stay at these values.
InvocationIdle ==
    /\ pc = "idle"
    /\ preq = <<>>
    /\ bs = <<>>
    /\ req = NoRequest
    /\ buf = NewResponseBuffer
    /\ resp = NoResponse
    /\ err = "pending"
    /\ logs = <<>>
    /\ served = 0
    /\ calls = <<>>
    /\ outcome = "none"

BufferIdle ==
    /\ rb = NewResponseBuffer
    /\ rendered = NoResponse
    /\ rops = <<>>

\* The zero value Config{}: HttpMode is the first constant of Mode.
ZeroConfig == [Mode |-> "HttpMode", HttpAddr |-> <<>>]

\* A nil error of Start or ConfigFromEnv.
NoError == [msg |-> "", cause |-> ""]

StartIdle ==
    /\ environ = <<>>
    /\ spc = "idle"
    /\ config = ZeroConfig
    /\ startErr = NoError
    /\ transport = "none"

ConcurrentIdle ==
    /\ inv = <<>>
    /\ heap = <<>>
    /\ sink = <<>>

Init ==
    /\ pc = "decode"
    /\ preq \in ProxyRequests
    /\ bs = <<>>
    /\ req = NoRequest
    /\ buf = NewResponseBuffer
    /\ resp = NoResponse
    /\ err = "pending"
    /\ logs = <<>>
    /\ served = 0
    /\ calls = <<>>
    /\ outcome = "none"
    /\ BufferIdle
    /\ StartIdle
    /\ ConcurrentIdle

\* A return that reports the failures through the error value.
ReturnFailureAsError(r, how) ==
    /\ resp' = r
    /\ err' = IF how = "ok" THEN "" ELSE "request failed"
    /\ outcome' = how
    /\ pc' = "done"

\* return value, nil
Return(r, how) ==
    /\ resp' = r
    /\ err' = ""
    /\ outcome' = how
    /\ pc' = "done"

\* Decoding that drops the decode error and goes on with the bytes it has.
DecodeBodyIgnoringError ==
    /\ pc = "decode"
    /\ bs' = IF preq.Base64 THEN DecodeString(preq.Body).bytes ELSE preq.Body
    /\ pc' = "newRequest"
    /\ UNCHANGED <<preq, req, buf, resp, err, logs, served, calls, outcome>>
    /\ UNCHANGED <<bufferVars, startVars, concurrentVars>>

\* Decoding that hands on the body text as it came, decoded or not.
DecodeBodyKeepingText ==
    /\ pc = "decode"
    /\ IF preq.Base64 /\ ~DecodeString(preq.Body).ok
       THEN /\ logs' = Append(logs, LogDecode)
            /\ Return(errorResponse(StatusBadRequest, MsgCouldNotDecodeBody),
                      "badBase64")
            /\ bs' = bs
       ELSE /\ bs' = preq.Body
            /\ pc' = "newRequest"
            /\ UNCHANGED <<resp, err, outcome, logs>>
    /\ UNCHANGED <<preq, req, buf, served, calls>>
    /\ UNCHANGED <<bufferVars, startVars, concurrentVars>>

\* Lines 124-134: decode the body.
DecodeBody ==
    /\ pc = "decode"
    /\ IF preq.Base64
       THEN LET d == DecodeString(preq.Body)
            IN  IF ~d.ok
                THEN /\ logs' = Append(logs, LogDecode)
                     /\ Return(errorResponse(StatusBadRequest, MsgCouldNotDecodeBody),
                               "badBase64")
                     /\ bs' = bs
                ELSE /\ bs' = d.bytes
                     /\ pc' = "newRequest"
                     /\ UNCHANGED <<resp, err, outcome, logs>>
       ELSE /\ bs' = preq.Body
            /\ pc' = "newRequest"
            /\ UNCHANGED <<resp, err, outcome, logs>>
    /\ UNCHANGED <<preq, req, buf, served, calls>>
    /\ UNCHANGED <<bufferVars, startVars, concurrentVars>>

\* Request construction that drops the construction error.
CreateRequestIgnoringError ==
    /\ pc = "newRequest"
    /\ req' = [Method |-> preq.HttpMethod, URL |-> preq.Path,
               Header |-> EmptyHeader, Body |-> bs]
    /\ pc' = "copyHeaders"
    /\ UNCHANGED <<preq, bs, buf, resp, err, logs, served, calls, outcome>>
    /\ UNCHANGED <<bufferVars, startVars, concurrentVars>>

\* Lines 136-142: build the request.
CreateRequest ==
    /\ pc = "newRequest"
    /\ LET r == NewRequestWithContext(preq.HttpMethod, preq.Path, bs)
       IN  IF r.err # ""
           THEN /\ logs' = Append(logs, LogCreateRequest \o r.err)
                /\ Return(errorResponse(StatusBadRequest, MsgCouldNotCreateRequest),
                          "badRequest")
                /\ req' = req
           ELSE /\ req' = r.req
                /\ pc' = "copyHeaders"
                /\ UNCHANGED <<resp, err, outcome, logs>>
    /\ UNCHANGED <<preq, bs, buf, served, calls>>
    /\ UNCHANGED <<bufferVars, startVars, concurrentVars>>

RECURSIVE AddSingles(_, _, _)
\* The first loop, visiting the keys in the order ks.
AddSingles(h, m, ks) ==
    IF Len(ks) = 0 THEN h
    ELSE AddSingles(HeaderAdd(h, ks[1], m[ks[1]]), m, Tail(ks))

RECURSIVE AddValuesReplacing(_, _, _)
\* The inner loop with Header.Set in place of Header.Add.
AddValuesReplacing(h, k, vs) ==
    IF Len(vs) = 0 THEN h
    ELSE AddValuesReplacing(HeaderSet(h, k, vs[1]), k, Tail(vs))

RECURSIVE AddValues(_, _, _)
AddValues(h, k, vs) ==
    IF Len(vs) = 0 THEN h
    ELSE AddValues(HeaderAdd(h, k, vs[1]), k, Tail(vs))

RECURSIVE AddMultis(_, _, _)
\* The second loop, visiting the keys in the order ks.
AddMultis(h, m, ks) ==
    IF Len(ks) = 0 THEN h
    ELSE AddMultis(AddValues(h, ks[1], m[ks[1]]), m, Tail(ks))

\* Lines 144-152: copy the headers; a range loop over a map visits its keys
\* in an order the runtime chooses.
CopyHeaders ==
    /\ pc = "copyHeaders"
    /\ \E o1 \in Orders(DOMAIN preq.Headers) :
       \E o2 \in Orders(DOMAIN preq.MultiValueHeaders) :
          req' = [req EXCEPT !.Header =
                    AddMultis(AddSingles(@, preq.Headers, o1),
                              preq.MultiValueHeaders, o2)]
    /\ pc' = "serve"
    /\ UNCHANGED <<preq, bs, buf, resp, err, logs, served, calls, outcome>>
    /\ UNCHANGED <<bufferVars, startVars, concurrentVars>>

\* Lines 155-156: a fresh buffer, and the call of the handler.
ServeHTTP ==
    /\ pc = "serve"
    /\ buf' = NewResponseBuffer
    /\ served' = served + 1
    /\ pc' = "handler"
    /\ UNCHANGED <<preq, bs, req, resp, err, logs, calls, outcome>>
    /\ UNCHANGED <<bufferVars, startVars, concurrentVars>>

\* The handler calls w.Header() and leaves the map as it is.
HandlerHeader ==
    /\ pc = "handler"
    /\ Len(calls) < MaxOps
    /\ buf' = Header(buf)
    /\ calls' = Append(calls, [op |-> "Header", code |-> 0, bytes |-> <<>>,
                               mut |-> "none", val |-> ""])
    /\ UNCHANGED <<pc, preq, bs, req, resp, err, logs, served, outcome>>
    /\ UNCHANGED <<bufferVars, startVars, concurrentVars>>

\* The handler calls w.Header().Set(k, v).
HandlerHeaderSet ==
    /\ pc = "handler"
    /\ Len(calls) < MaxOps
    /\ \E v \in ContentTypes :
          /\ buf' = [Header(buf) EXCEPT !.header.m = HeaderSet(@, KeyLowerContentType, v)]
          /\ calls' = Append(calls, [op |-> "Header", code |-> 0, bytes |-> <<>>,
                                     mut |-> "set", val |-> v])
    /\ UNCHANGED <<pc, preq, bs, req, resp, err, logs, served, outcome>>
    /\ UNCHANGED <<bufferVars, startVars, concurrentVars>>

\* The handler calls w.Header().Add(k, v).
HandlerHeaderAdd ==
    /\ pc = "handler"
    /\ Len(calls) < MaxOps
    /\ buf' = [Header(buf) EXCEPT !.header.m = HeaderAdd(@, ContentTypeKey, "application/json")]
    /\ calls' = Append(calls, [op |-> "Header", code |-> 0, bytes |-> <<>>,
                               mut |-> "add", val |-> "application/json"])
    /\ UNCHANGED <<pc, preq, bs, req, resp, err, logs, served, outcome>>
    /\ UNCHANGED <<bufferVars, startVars, concurrentVars>>

\* The handler calls w.WriteHeader(c).
HandlerWriteHeader ==
    /\ pc = "handler"
    /\ Len(calls) < MaxOps
    /\ \E c \in StatusCodes :
          /\ buf' = WriteHeader(buf, c)
          /\ calls' = Append(calls, [op |-> "WriteHeader", code |-> c, bytes |-> <<>>,
                                     mut |-> "none", val |-> ""])
    /\ UNCHANGED <<pc, preq, bs, req, resp, err, logs, served, outcome>>
    /\ UNCHANGED <<bufferVars, startVars, concurrentVars>>

\* The handler calls w.Write(b).
HandlerWrite ==
    /\ pc = "handler"
    /\ Len(calls) < MaxOps
    /\ \E b \in WriteArgs :
          /\ buf' = Write(buf, b)
          /\ calls' = Append(calls, [op |-> "Write", code |-> 0, bytes |-> b,
                                     mut |-> "none", val |-> ""])
    /\ UNCHANGED <<pc, preq, bs, req, resp, err, logs, served, outcome>>
    /\ UNCHANGED <<bufferVars, startVars, concurrentVars>>

\* ServeHTTP returns.
HandlerReturn ==
    /\ pc = "handler"
    /\ pc' = "rendering"
    /\ UNCHANGED <<preq, bs, req, buf, resp, err, logs, served, calls, outcome>>
    /\ UNCHANGED <<bufferVars, startVars, concurrentVars>>

\* A return that logs on the success path as well.
RenderLoggingAlways ==
    /\ pc = "rendering"
    /\ logs' = Append(logs, LogNoWrite)
    /\ IF ~buf.wroteHeader
       THEN Return(errorResponse(StatusInternalServerError, MsgInternalServerError),
                   "noWrite")
       ELSE Return(ToLambdaProxyResponse(buf), "ok")
    /\ UNCHANGED <<preq, bs, req, buf, served, calls>>
    /\ UNCHANGED <<bufferVars, startVars, concurrentVars>>

\* Lines 158-163: the synthesized 500, or the rendered envelope.
Render ==
    /\ pc = "rendering"
    /\ IF ~buf.wroteHeader
       THEN /\ logs' = Append(logs, LogNoWrite)
            /\ Return(errorResponse(StatusInternalServerError, MsgInternalServerError),
                      "noWrite")
       ELSE /\ logs' = logs
            /\ Return(ToLambdaProxyResponse(buf), "ok")
    /\ UNCHANGED <<preq, bs, req, buf, served, calls>>
    /\ UNCHANGED <<bufferVars, startVars, concurrentVars>>

Next ==
    \/ DecodeBody
    \/ CreateRequest
    \/ CopyHeaders
    \/ ServeHTTP
    \/ HandlerHeader
    \/ HandlerHeaderSet
    \/ HandlerHeaderAdd
    \/ HandlerWriteHeader
    \/ HandlerWrite
    \/ HandlerReturn
    \/ Render

Spec == Init /\ [][Next]_vars

(***************************************************************************)
(* A ResponseBuffer on its own: its exported methods called in any order,  *)
(* ToLambdaProxyResponse included.  The Header field of a produced         *)
(* envelope is the buffer's own map, so a later mutation of that map shows *)
(* in the envelope.                                                        *)
(***************************************************************************)
InitBuffer ==
    /\ rb = NewResponseBuffer
    /\ rendered = NoResponse
    /\ rops = <<>>
    /\ InvocationIdle
    /\ StartIdle
    /\ ConcurrentIdle

\* The produced envelope after the buffer's header became h: it shows h when
\* it holds the buffer's map, and stays without header set otherwise.
Shared(e, h) == IF e.Header.isNil THEN e ELSE [e EXCEPT !.Header = h]

BufferHeader ==
    /\ Len(rops) < MaxBufferOps
    /\ rb' = Header(rb)
    /\ rendered' = rendered
    /\ rops' = Append(rops, [op |-> "Header", code |-> 0, bytes |-> <<>>,
                             mut |-> "none", val |-> ""])
    /\ UNCHANGED <<invocationVars, startVars, concurrentVars>>

BufferHeaderSet ==
    /\ Len(rops) < MaxBufferOps
    /\ \E v \in ContentTypes :
          /\ rb' = [Header(rb) EXCEPT !.header.m = HeaderSet(@, KeyLowerContentType, v)]
          /\ rops' = Append(rops, [op |-> "Header", code |-> 0, bytes |-> <<>>,
                                   mut |-> "set", val |-> v])
    /\ rendered' = Shared(rendered, rb'.header)
    /\ UNCHANGED <<invocationVars, startVars, concurrentVars>>

BufferHeaderAdd ==
    /\ Len(rops) < MaxBufferOps
    /\ rb' = [Header(rb) EXCEPT !.header.m = HeaderAdd(@, ContentTypeKey, "application/json")]
    /\ rops' = Append(rops, [op |-> "Header", code |-> 0, bytes |-> <<>>,
                             mut |-> "add", val |-> "application/json"])
    /\ rendered' = Shared(rendered, rb'.header)
    /\ UNCHANGED <<invocationVars, startVars, concurrentVars>>

BufferWriteHeader ==
    /\ Len(rops) < MaxBufferOps
    /\ \E c \in StatusCodes :
          /\ rb' = WriteHeader(rb, c)
          /\ rops' = Append(rops, [op |-> "WriteHeader", code |-> c, bytes |-> <<>>,
                                   mut |-> "none", val |-> ""])
    /\ rendered' = rendered
    /\ UNCHANGED <<invocationVars, startVars, concurrentVars>>

BufferWrite ==
    /\ Len(rops) < MaxBufferOps
    /\ \E b \in WriteArgs :
          /\ rb' = Write(rb, b)
          /\ rops' = Append(rops, [op |-> "Write", code |-> 0, bytes |-> b,
                                   mut |-> "none", val |-> ""])
    /\ rendered' = rendered
    /\ UNCHANGED <<invocationVars, startVars, concurrentVars>>

BufferRender ==
    /\ Len(rops) < MaxBufferOps
    /\ rb' = Rendering(rb).buffer
    /\ rendered' = Rendering(rb).envelope
    /\ rops' = Append(rops, [op |-> "Render", code |-> 0, bytes |-> <<>>,
                             mut |-> "none", val |-> ""])
    /\ UNCHANGED <<invocationVars, startVars, concurrentVars>>

NextBuffer ==
    \/ BufferHeader
    \/ BufferHeaderSet
    \/ BufferHeaderAdd
    \/ BufferWriteHeader
    \/ BufferWrite
    \/ BufferRender

SpecBuffer == InitBuffer /\ [][NextBuffer]_vars

(***************************************************************************)
(* Process start: ConfigFromEnv and Start.                                 *)
(***************************************************************************)
\* "lambda" and "http"
ModeLambda == <<108, 97, 109, 98, 100, 97>>

ModeHttp == <<104, 116, 116, 112>>

\* unicode.IsSpace for one-byte characters.
IsSpace(c) == c \in {9, 10, 11, 12, 13, 32, 133, 160}

RECURSIVE TrimLeft(_)
TrimLeft(t) == IF Len(t) > 0 /\ IsSpace(t[1]) THEN TrimLeft(Tail(t)) ELSE t

RECURSIVE TrimRight(_)
TrimRight(t) ==
    IF Len(t) > 0 /\ IsSpace(t[Len(t)]) THEN TrimRight(SubSeq(t, 1, Len(t) - 1)) ELSE t

\* strings.TrimSpace
TrimSpace(t) == TrimRight(TrimLeft(t))

\* strings.ToLower
ToLowerString(t) == [i \in 1..Len(t) |-> ToLower(t[i])]

\* Values of CONNECT_SERVER_MODE: "lambda", "Lambda", "LAMBDA", "http",
\* "HTTP", "grpc" and the empty text of an unset or empty variable, each
\* with and without a leading blank and a trailing line feed.
ModeWords ==
    {ModeLambda, <<76, 97, 109, 98, 100, 97>>, <<76, 65, 77, 66, 68, 65>>,
     ModeHttp, <<72, 84, 84, 80>>, <<103, 114, 112, 99>>, <<>>}

EnvModes == {p \o w \o q : p \in {<<>>, <<32>>}, w \in ModeWords, q \in {<<>>, <<10>>}}

\* Values of CONNECT_SERVER_ADDR when it is set: "", ":8080", " :8080 ".
EnvAddrs == {<<>>, <<58, 56, 48, 56, 48>>, <<32, 58, 56, 48, 56, 48, 32>>}

\* The environment: what os.Getenv returns for the mode, and what
\* os.LookupEnv returns for the address.
Environments ==
    {e \in [mode : EnvModes, addrSet : BOOLEAN, addr : EnvAddrs] :
        e.addrSet \/ e.addr = <<>>}

\* ConfigFromEnv that asks for the address in every mode.
ConfigFromEnvAddrAlways(e) ==
    LET mode == ToLowerString(TrimSpace(e.mode))
    IN  IF mode \notin {ModeLambda, <<>>, ModeHttp}
        THEN [config |-> ZeroConfig,
              err |-> [msg |-> "incorrect CONNECT_SERVER_MODE environment value", cause |-> ""]]
        ELSE IF ~e.addrSet
        THEN [config |-> ZeroConfig,
              err |-> [msg |-> "missing CONNECT_SERVER_ADDR environment value", cause |-> ""]]
        ELSE [config |-> [Mode |-> IF mode = ModeLambda THEN "LambdaMode" ELSE "HttpMode",
                          HttpAddr |-> TrimSpace(e.addr)],
              err |-> NoError]

ConfigFromEnv(e) ==
    LET mode == ToLowerString(TrimSpace(e.mode))
    IN  IF mode = ModeLambda
        THEN [config |-> [Mode |-> "LambdaMode", HttpAddr |-> <<>>], err |-> NoError]
        ELSE IF mode \in {<<>>, ModeHttp}
        THEN IF ~e.addrSet
             THEN [config |-> ZeroConfig,
                   err |-> [msg |-> "missing CONNECT_SERVER_ADDR environment value",
                            cause |-> ""]]
             ELSE [config |-> [Mode |-> "HttpMode", HttpAddr |-> TrimSpace(e.addr)],
                   err |-> NoError]
        ELSE [config |-> ZeroConfig,
              err |-> [msg |-> "incorrect CONNECT_SERVER_MODE environment value", cause |-> ""]]

InitStart ==
    /\ environ \in Environments
    /\ spc = "start"
    /\ config = ZeroConfig
    /\ startErr = NoError
    /\ transport = "none"
    /\ InvocationIdle
    /\ BufferIdle
    /\ ConcurrentIdle

\* Lines 38-41: read the configuration; an error ends Start.
StartConfig ==
    /\ spc = "start"
    /\ LET c == ConfigFromEnv(environ)
       IN  IF c.err # NoError
           THEN /\ startErr' = [msg |-> "could not start handler", cause |-> c.err.msg]
                /\ config' = c.config
                /\ spc' = "returned"
           ELSE /\ startErr' = NoError
                /\ config' = c.config
                /\ spc' = "configured"
    /\ UNCHANGED <<environ, transport>>
    /\ UNCHANGED <<invocationVars, bufferVars, concurrentVars>>

\* Lines 44-46: lambda.Start registers the handler and serves.
StartLambda ==
    /\ spc = "configured"
    /\ config.Mode = "LambdaMode"
    /\ transport' = "lambda"
    /\ spc' = "serving"
    /\ UNCHANGED <<environ, config, startErr>>
    /\ UNCHANGED <<invocationVars, bufferVars, concurrentVars>>

\* Lines 48-52: http.ListenAndServe opens the socket and serves.
StartHttp ==
    /\ spc = "configured"
    /\ config.Mode = "HttpMode"
    /\ transport' = "http"
    /\ spc' = "serving"
    /\ UNCHANGED <<environ, config, startErr>>
    /\ UNCHANGED <<invocationVars, bufferVars, concurrentVars>>

\* Lines 53-55: ListenAndServe returns, always with an error.
HttpServerFails ==
    /\ spc = "serving"
    /\ transport = "http"
    /\ startErr' = [msg |-> "failed to start http server", cause |-> "ListenAndServe"]
    /\ spc' = "returned"
    /\ UNCHANGED <<environ, config, transport>>
    /\ UNCHANGED <<invocationVars, bufferVars, concurrentVars>>

NextStart ==
    \/ StartConfig
    \/ StartLambda
    \/ StartHttp
    \/ HttpServerFails

SpecStart == InitStart /\ [][NextStart]_vars

(***************************************************************************)
(* Concurrent invocations of handleLambdaReq on one handler value.  Each   *)
(* invocation has its own local variables; the handlers are deterministic: *)
(* a handler performs a fixed list of ResponseWriter calls.                *)
(***************************************************************************)
Invocations == 1..NumInvocations

\* The fields of the envelope that handleLambdaReq never reads.  "q" -> "2"
\* is the one query parameter used.
UnreadFields ==
    {[Resource |-> "/", QueryStringParameters |-> EmptyHeader,
      MultiValueQueryStringParameters |-> EmptyHeader, PathParameters |-> "null",
      StageVariables |-> "null", RequestContext |-> "request-1"],
     [Resource |-> "/{proxy+}", QueryStringParameters |-> (<<113>> :> <<50>>),
      MultiValueQueryStringParameters |-> (<<113>> :> <<<<50>>>>),
      PathParameters |-> "proxy", StageVariables |-> "prod",
      RequestContext |-> "request-2"]}

\* The fields handleLambdaReq reads: a base64 body with two header names that
\* differ in case only; a literal body with one name in both header maps; a
\* body that is not base64; a path that is no URL.
ReadFields ==
    {[Path |-> <<47, 97, 63, 113, 61, 49>>, HttpMethod |-> <<80, 79, 83, 84>>,
      Headers |-> (KeyLowerX :> "1") @@ (KeyUpperX :> "0"),
      MultiValueHeaders |-> EmptyHeader,
      Body |-> <<97, 71, 107, 61>>, Base64 |-> TRUE],
     [Path |-> <<47, 97, 63, 113, 61, 49>>, HttpMethod |-> <<>>,
      Headers |-> (KeyLowerX :> "1"),
      MultiValueHeaders |-> (KeyUpperX :> <<"2", "3">>),
      Body |-> <<97, 32, 98>>, Base64 |-> FALSE],
     [Path |-> <<47, 97, 63, 113, 61, 49>>, HttpMethod |-> <<80, 79, 83, 84>>,
      Headers |-> EmptyHeader, MultiValueHeaders |-> EmptyHeader,
      Body |-> <<97, 71, 107>>, Base64 |-> TRUE],
     [Path |-> <<47, 37, 122, 122>>, HttpMethod |-> <<80, 79, 83, 84>>,
      Headers |-> EmptyHeader, MultiValueHeaders |-> EmptyHeader,
      Body |-> <<97, 32, 98>>, Base64 |-> FALSE]}

\* The envelopes of type ProxyRequest given to the concurrent invocations;
\* the two that reach the handler come with both sets of unread fields.
FullProxyRequests ==
    {r @@ u : r \in {x \in ReadFields : x.Headers # EmptyHeader}, u \in UnreadFields}
    \cup {r @@ (CHOOSE u \in UnreadFields : u.Resource = "/") :
            r \in {x \in ReadFields : x.Headers = EmptyHeader}}

\* The handlers: one sets a status and a JSON content type and writes "hi",
\* one returns without a call.
HandlerScripts ==
    {<<[op |-> "WriteHeader", code |-> 404, bytes |-> <<>>, mut |-> "none", val |-> ""],
       [op |-> "Header", code |-> 0, bytes |-> <<>>, mut |-> "set", val |-> "application/json"],
       [op |-> "Write", code |-> 0, bytes |-> <<104, 105>>, mut |-> "none", val |-> ""]>>,
     <<>>}

\* The effect of one ResponseWriter call of a handler on its buffer.
ApplyCall(o, c) ==
    IF c.op = "WriteHeader" THEN WriteHeader(o, c.code)
    ELSE IF c.op = "Write" THEN Write(o, c.bytes)
    ELSE IF c.mut = "set"
    THEN [Header(o) EXCEPT !.header.m = HeaderSet(@, KeyLowerContentType, c.val)]
    ELSE IF c.mut = "add"
    THEN [Header(o) EXCEPT !.header.m = HeaderAdd(@, ContentTypeKey, c.val)]
    ELSE Header(o)

\* A request target that appends the query parameters of the envelope.
RequestTargetWithQuery(p) ==
    IF DOMAIN p.QueryStringParameters = {} THEN p.Path
    ELSE LET k == CHOOSE x \in DOMAIN p.QueryStringParameters : TRUE
         IN  p.Path \o <<38>> \o k \o <<61>> \o p.QueryStringParameters[k]

\* Line 122: the request target is the path of the envelope.
RequestTarget(p) == p.Path

\* One buffer for all invocations, as a field of the handler would be.
BufferForShared(i) == 1

\* Line 155: the address of the buffer an invocation allocates; every
\* allocation yields a buffer of its own.
BufferFor(i) == i

InitConcurrent ==
    /\ inv \in [Invocations ->
                 [pc : {"decode"}, preq : FullProxyRequests, script : HandlerScripts,
                  bs : {<<>>}, req : {NoRequest}, buf : {0}, resp : {NoResponse},
                  err : {"pending"}, done : {0}, outcome : {"none"}]]
    /\ heap = [a \in Invocations |-> NewResponseBuffer]
    /\ sink = <<>>
    /\ InvocationIdle
    /\ BufferIdle
    /\ StartIdle

\* The invocation i returns the envelope r and a nil error.
ReturnOf(i, r, how) ==
    inv' = [inv EXCEPT ![i] = [@ EXCEPT !.resp = r, !.err = "", !.outcome = how,
                                        !.pc = "done"]]

\* Lines 124-134 in invocation i.
DecodeBodyOf(i) ==
    /\ inv[i].pc = "decode"
    /\ LET p == inv[i].preq
           d == DecodeString(p.Body)
       IN  IF p.Base64 /\ ~d.ok
           THEN /\ sink' = Append(sink, LogDecode)
                /\ ReturnOf(i, errorResponse(StatusBadRequest, MsgCouldNotDecodeBody),
                            "badBase64")
           ELSE /\ inv' = [inv EXCEPT ![i] =
                            [@ EXCEPT !.bs = IF p.Base64 THEN d.bytes ELSE p.Body,
                                      !.pc = "newRequest"]]
                /\ sink' = sink
    /\ UNCHANGED heap
    /\ UNCHANGED <<invocationVars, bufferVars, startVars>>

\* Lines 136-142 in invocation i.
CreateRequestOf(i) ==
    /\ inv[i].pc = "newRequest"
    /\ LET p == inv[i].preq
           r == NewRequestWithContext(p.HttpMethod, RequestTarget(p), inv[i].bs)
       IN  IF r.err # ""
           THEN /\ sink' = Append(sink, LogCreateRequest \o r.err)
                /\ ReturnOf(i, errorResponse(StatusBadRequest, MsgCouldNotCreateRequest),
                            "badRequest")
           ELSE /\ inv' = [inv EXCEPT ![i] = [@ EXCEPT !.req = r.req, !.pc = "copyHeaders"]]
                /\ sink' = sink
    /\ UNCHANGED heap
    /\ UNCHANGED <<invocationVars, bufferVars, startVars>>

\* Lines 144-152 in invocation i.
CopyHeadersOf(i) ==
    /\ inv[i].pc = "copyHeaders"
    /\ \E o1 \in Orders(DOMAIN inv[i].preq.Headers) :
       \E o2 \in Orders(DOMAIN inv[i].preq.MultiValueHeaders) :
          inv' = [inv EXCEPT ![i] =
                    [@ EXCEPT !.req.Header =
                                 AddMultis(AddSingles(@, inv[i].preq.Headers, o1),
                                           inv[i].preq.MultiValueHeaders, o2),
                              !.pc = "serve"]]
    /\ UNCHANGED <<heap, sink>>
    /\ UNCHANGED <<invocationVars, bufferVars, startVars>>

\* Lines 155-156 in invocation i: allocate the buffer and call the handler.
ServeOf(i) ==
    /\ inv[i].pc = "serve"
    /\ heap' = [heap EXCEPT ![BufferFor(i)] = NewResponseBuffer]
    /\ inv' = [inv EXCEPT ![i] = [@ EXCEPT !.buf = BufferFor(i), !.pc = "handler"]]
    /\ UNCHANGED sink
    /\ UNCHANGED <<invocationVars, bufferVars, startVars>>

\* The handler of invocation i makes its next ResponseWriter call.
HandlerCallOf(i) ==
    /\ inv[i].pc = "handler"
    /\ inv[i].done < Len(inv[i].script)
    /\ heap' = [heap EXCEPT ![inv[i].buf] = ApplyCall(@, inv[i].script[inv[i].done + 1])]
    /\ inv' = [inv EXCEPT ![i] = [@ EXCEPT !.done = @ + 1]]
    /\ UNCHANGED sink
    /\ UNCHANGED <<invocationVars, bufferVars, startVars>>

\* The handler of invocation i returns after its last call.
HandlerReturnOf(i) ==
    /\ inv[i].pc = "handler"
    /\ inv[i].done = Len(inv[i].script)
    /\ inv' = [inv EXCEPT ![i] = [@ EXCEPT !.pc = "rendering"]]
    /\ UNCHANGED <<heap, sink>>
    /\ UNCHANGED <<invocationVars, bufferVars, startVars>>

\* Lines 158-163 in invocation i.
RenderOf(i) ==
    /\ inv[i].pc = "rendering"
    /\ IF ~heap[inv[i].buf].wroteHeader
       THEN /\ sink' = Append(sink, LogNoWrite)
            /\ ReturnOf(i, errorResponse(StatusInternalServerError, MsgInternalServerError),
                        "noWrite")
       ELSE /\ sink' = sink
            /\ ReturnOf(i, ToLambdaProxyResponse(heap[inv[i].buf]), "ok")
    /\ UNCHANGED heap
    /\ UNCHANGED <<invocationVars, bufferVars, startVars>>

ConcurrentDecodeBody == \E i \in Invocations : DecodeBodyOf(i)

ConcurrentCreateRequest == \E i \in Invocations : CreateRequestOf(i)

ConcurrentCopyHeaders == \E i \in Invocations : CopyHeadersOf(i)

ConcurrentServe == \E i \in Invocations : ServeOf(i)

ConcurrentHandlerCall == \E i \in Invocations : HandlerCallOf(i)

ConcurrentHandlerReturn == \E i \in Invocations : HandlerReturnOf(i)

ConcurrentRender == \E i \in Invocations : RenderOf(i)

NextConcurrent ==
    \/ ConcurrentDecodeBody
    \/ ConcurrentCreateRequest
    \/ ConcurrentCopyHeaders
    \/ ConcurrentServe
    \/ ConcurrentHandlerCall
    \/ ConcurrentHandlerReturn
    \/ ConcurrentRender

SpecConcurrent == InitConcurrent /\ [][NextConcurrent]_vars

(***************************************************************************)
(* What the handler did, read off the recorded calls.                      *)
(***************************************************************************)
\* Positions of the calls that commit the header: WriteHeader and Write.
StatusCalls == {i \in 1..Len(calls) : calls[i].op # "Header"}

\* The first committing call; only used when there is one.
FirstStatusCall == calls[CHOOSE i \in StatusCalls : \A j \in StatusCalls : i <= j]

FirstIsWrite == StatusCalls # {} /\ FirstStatusCall.op = "Write"

FirstIsWriteHeader == StatusCalls # {} /\ FirstStatusCall.op = "WriteHeader"

SomeWrite == \E i \in 1..Len(calls) : calls[i].op = "Write"

RECURSIVE WrittenBytes(_)
\* The bytes passed to Write, concatenated in call order.
WrittenBytes(cs) ==
    IF Len(cs) = 0 THEN <<>>
    ELSE (IF cs[1].op = "Write" THEN cs[1].bytes ELSE <<>>) \o WrittenBytes(Tail(cs))

HandlerReturned == pc \in {"rendering", "done"}

(***************************************************************************)
(* C1                                                                      *)
(***************************************************************************)
\* C1 as stated: when the request was built and the handler returned without
\* calling WriteHeader or Write, the returned envelope has status 500, base64
\* flag true and a non-empty body, and the logger was called exactly once.
C1_SilentHandlerBase64True ==
    (pc = "done" /\ served = 1 /\ StatusCalls = {}) =>
        /\ resp.Status = 500
        /\ resp.Base64 = TRUE
        /\ Len(resp.Body) > 0
        /\ Len(logs) = 1

\* C1 amended: when the request was built and the handler returned without
\* calling WriteHeader or Write, the returned envelope has status 500, base64
\* flag false and the literal text "internal server error" as its body, and
\* the logger was called exactly once.
C1_SilentHandler500 ==
    (pc = "done" /\ served = 1 /\ StatusCalls = {}) =>
        /\ resp.Status = 500
        /\ resp.Base64 = FALSE
        /\ Len(resp.Body) > 0
        /\ resp.Body = MsgInternalServerError
        /\ Len(logs) = 1

C1_Witness ==
    /\ pc = "done"
    /\ served = 1
    /\ StatusCalls = {}
    /\ Len(calls) = 2
    /\ resp.Status = 500

(***************************************************************************)
(* C2                                                                      *)
(***************************************************************************)
\* C2: whatever the envelope and whatever Header, WriteHeader(c) and Write
\* calls the handler performs, the returned envelope never has status 0.
C2_StatusNeverUnset ==
    pc = "done" => resp.Status # 0

(***************************************************************************)
(* C3                                                                      *)
(***************************************************************************)
\* The raw response bytes of the return taken: what the handler wrote, or the
\* diagnostic text.
RawResponse ==
    CASE outcome = "ok" -> WrittenBytes(calls)
      [] outcome = "badBase64" -> MsgCouldNotDecodeBody
      [] outcome = "badRequest" -> MsgCouldNotCreateRequest
      [] outcome = "noWrite" -> MsgInternalServerError
      [] OTHER -> <<>>

\* C3: on the success path and on the three error paths the base64 flag of
\* the returned envelope agrees with its body: with the flag false the body is
\* the raw response text, with the flag true the body is valid base64 that
\* decodes to the raw response bytes.
C3_FlagAgreesWithBody ==
    pc = "done" =>
        IF resp.Base64
        THEN /\ DecodeString(resp.Body).ok
             /\ DecodeString(resp.Body).bytes = RawResponse
        ELSE resp.Body = RawResponse

C3_Witness ==
    /\ pc = "done"
    /\ outcome = "ok"
    /\ resp.Base64
    /\ WrittenBytes(calls) = <<104, 105, 0, 255, 16>>

(***************************************************************************)
(* C4                                                                      *)
(***************************************************************************)
\* C4: for an envelope whose base64 flag is true and whose body is not valid
\* base64, the invocation returns a nil error and an envelope with status 400
\* and the fixed text "could not decode body"; no request is built and the
\* handler is not called.
C4_BadBase64Is400 ==
    (pc = "done" /\ preq.Base64 /\ ~DecodeString(preq.Body).ok) =>
        /\ err = ""
        /\ resp.Status = 400
        /\ resp.Body = MsgCouldNotDecodeBody
        /\ ~resp.Base64
        /\ req = NoRequest
        /\ served = 0
        /\ logs = <<LogDecode>>

C4_Witness ==
    /\ pc = "done"
    /\ preq.Base64
    /\ preq.Body = <<97, 71, 107>>
    /\ resp.Status = 400

(***************************************************************************)
(* C5                                                                      *)
(***************************************************************************)
\* The body of the envelope decodes (or needs no decoding).
BodyDecodes == preq.Base64 => DecodeString(preq.Body).ok

\* The method, an empty one standing for GET, is not a token.
MethodInvalid ==
    /\ Len(preq.HttpMethod) > 0
    /\ \E i \in 1..Len(preq.HttpMethod) : ~IsTokenChar(preq.HttpMethod[i])

\* C5: for an envelope whose body decodes but whose method is invalid or
\* whose path is a malformed URL, the invocation returns a nil error and an
\* envelope with status 400 and the body "could not create request, check url
\* and http method", and the handler is never called.
C5_BadRequestIs400 ==
    (pc = "done" /\ BodyDecodes /\ (MethodInvalid \/ ParseURL(preq.Path) # "ok")) =>
        /\ err = ""
        /\ resp.Status = 400
        /\ resp.Body = MsgCouldNotCreateRequest
        /\ served = 0

C5_Witness ==
    /\ pc = "done"
    /\ BodyDecodes
    /\ MethodInvalid
    /\ ParseURL(preq.Path) = "ok"
    /\ outcome = "badRequest"

(***************************************************************************)
(* C6                                                                      *)
(***************************************************************************)
\* C6: the invocation never returns a non-nil error; when it has returned
\* there is an envelope, and each of the three recoverable failures shows
\* only as a 4xx/5xx status with a non-empty body text.
C6_AlwaysNilError ==
    /\ err \in {"pending", ""}
    /\ pc = "done" =>
        /\ err = ""
        /\ resp # NoResponse
        /\ outcome \in {"ok", "badBase64", "badRequest", "noWrite"}
        /\ outcome # "ok" =>
              /\ resp.Status >= 400
              /\ resp.Status <= 599
              /\ Len(resp.Body) > 0

C6_Witness ==
    /\ pc = "done"
    /\ outcome = "badRequest"
    /\ ParseURL(preq.Path) = "invalid URL escape"
    /\ err = ""

(***************************************************************************)
(* C7                                                                      *)
(***************************************************************************)
\* The Content-Type of a header set: the first value stored under the
\* canonical key, "" when the set is nil or holds no such value.
ContentTypeOf(hdr) ==
    IF hdr.isNil \/ ContentTypeKey \notin DOMAIN hdr.m THEN ""
    ELSE hdr.m[ContentTypeKey][1]

\* C7: in an envelope rendered after the handler committed a header, the
\* base64 flag is false and the body is the literal written text exactly when
\* the Content-Type is "application/json"; for every other Content-Type, for
\* none and for a nil header set the flag is true and the body is the base64
\* encoding of the bytes passed to Write, concatenated in call order.
C7_OnlyJsonIsLiteral ==
    (pc = "done" /\ outcome = "ok") =>
        IF ContentTypeOf(resp.Header) = "application/json"
        THEN ~resp.Base64 /\ resp.Body = WrittenBytes(calls)
        ELSE resp.Base64 /\ resp.Body = EncodeToString(WrittenBytes(calls))

C7_Witness ==
    /\ pc = "done"
    /\ outcome = "ok"
    /\ ContentTypeOf(resp.Header) = "application/json; charset=utf-8"
    /\ resp.Base64
    /\ resp.Body = <<97, 71, 107, 61>>

(***************************************************************************)
(* C8                                                                      *)
(***************************************************************************)
\* C8: when the handler's first committing call is a Write, the buffer holds
\* status 200 from then on and the rendered envelope has status 200,
\* whatever WriteHeader or Write calls follow.
C8_WriteFirstIs200 ==
    (pc \in {"handler", "rendering", "done"} /\ FirstIsWrite) =>
        /\ buf.statusCode = 200
        /\ pc = "done" => resp.Status = 200

C8_Witness ==
    /\ pc = "done"
    /\ FirstIsWrite
    /\ calls[Len(calls)].op = "WriteHeader"
    /\ calls[Len(calls)].code = 404
    /\ resp.Status = 200

(***************************************************************************)
(* C9                                                                      *)
(***************************************************************************)
\* C9 as stated: when the first committing call is WriteHeader(c), the status
\* retained by the buffer and rendered into the envelope is c, whatever
\* WriteHeader and Write calls follow.
C9_FirstCodeRetained ==
    (pc \in {"handler", "rendering", "done"} /\ FirstIsWriteHeader) =>
        /\ buf.statusCode = FirstStatusCall.code
        /\ pc = "done" => resp.Status = FirstStatusCall.code

\* C9 amended: when the first committing call is WriteHeader(c), every later
\* WriteHeader is ignored; the status retained and rendered is c, except
\* that for c = 0 it is 0 only until a Write is performed and 200 afterwards.
C9_FirstCommitWins ==
    (pc \in {"handler", "rendering", "done"} /\ FirstIsWriteHeader) =>
        LET c == FirstStatusCall.code
            kept == IF c = 0 /\ SomeWrite THEN 200 ELSE c
        IN  /\ buf.statusCode = kept
            /\ buf.wroteHeader
            /\ pc = "done" => resp.Status = kept

C9_Witness ==
    /\ pc = "done"
    /\ Len(calls) = 3
    /\ calls[1].op = "WriteHeader" /\ calls[1].code = 404
    /\ calls[2].op = "WriteHeader" /\ calls[2].code = 200
    /\ calls[3].op = "Write"
    /\ resp.Status = 404

(***************************************************************************)
(* C10                                                                     *)
(***************************************************************************)
\* The keys of a map that share the canonical key ck.
KeysFor(m, ck) == {k \in DOMAIN m : CanonicalMIMEHeaderKey(k) = ck}

RECURSIVE SingleValues(_, _)
\* The values of the single-value map under the keys ks, in that order.
SingleValues(m, ks) ==
    IF Len(ks) = 0 THEN <<>> ELSE <<m[ks[1]]>> \o SingleValues(m, Tail(ks))

RECURSIVE MultiValues(_, _)
\* The value lists of the multi-value map under the keys ks, concatenated.
MultiValues(m, ks) ==
    IF Len(ks) = 0 THEN <<>> ELSE m[ks[1]] \o MultiValues(m, Tail(ks))

CanonicalKeys ==
    {CanonicalMIMEHeaderKey(k) : k \in DOMAIN preq.Headers \cup DOMAIN preq.MultiValueHeaders}

\* C10: once the headers are copied, the request holds under every header
\* name first the values of the single-value map and then the values of the
\* multi-value map in list order, each exactly once: nothing is dropped,
\* replaced or deduplicated, also when a name occurs in both maps.  (Names
\* that differ only in case are one header name; their entries follow each
\* other in the order the map was visited.)
C10_HeaderMerge ==
    (pc \in {"serve", "handler", "rendering", "done"} /\ outcome \in {"none", "ok", "noWrite"}) =>
        /\ DOMAIN req.Header = CanonicalKeys
        /\ \A ck \in CanonicalKeys :
              \E o1 \in Orders(KeysFor(preq.Headers, ck)) :
              \E o2 \in Orders(KeysFor(preq.MultiValueHeaders, ck)) :
                 req.Header[ck] = SingleValues(preq.Headers, o1)
                                  \o MultiValues(preq.MultiValueHeaders, o2)

C10_Witness ==
    /\ pc = "serve"
    /\ DOMAIN preq.Headers # {}
    /\ DOMAIN preq.MultiValueHeaders # {}
    /\ req.Header[KeyUpperX] = <<"0", "1", "1", "2", "3">>

(***************************************************************************)
(* C11                                                                     *)
(***************************************************************************)
RECURSIVE ContentTypeValues(_)
\* The values the handler's header mutations leave under Content-Type:
\* Set replaces them by one value, Add appends one.
ContentTypeValues(cs) ==
    IF Len(cs) = 0 THEN <<>>
    ELSE LET c == cs[Len(cs)]
             before == ContentTypeValues(SubSeq(cs, 1, Len(cs) - 1))
         IN  IF c.mut = "set" THEN <<c.val>>
             ELSE IF c.mut = "add" THEN Append(before, c.val)
             ELSE before

HeaderAccessed == \E i \in 1..Len(calls) : calls[i].op = "Header"

HeaderMutated == \E i \in 1..Len(calls) : calls[i].mut # "none"

\* C11: the header set is allocated by the first Header call and is the same
\* set on every later call, so the rendered envelope carries the outcome of
\* all header mutations of the handler, those after WriteHeader or Write
\* included: it is nil when Header was never called, and otherwise holds
\* exactly what the mutations, applied in call order, leave.
C11_HeaderMutationsRendered ==
    (pc = "done" /\ outcome = "ok") =>
        /\ resp.Header.isNil = ~HeaderAccessed
        /\ DOMAIN resp.Header.m = IF HeaderMutated THEN {ContentTypeKey} ELSE {}
        /\ HeaderMutated => resp.Header.m[ContentTypeKey] = ContentTypeValues(calls)

C11_Witness ==
    /\ pc = "done"
    /\ outcome = "ok"
    /\ Len(calls) = 3
    /\ calls[1].mut = "set" /\ calls[1].val = "text/plain"
    /\ calls[2].op = "Write"
    /\ calls[3].mut = "add"
    /\ resp.Header.m[ContentTypeKey] = <<"text/plain", "application/json">>

(***************************************************************************)
(* C12                                                                     *)
(***************************************************************************)
\* C12: when the handler is reached, the body of the request it is given is
\* the literal body text of the envelope when the base64 flag is false, and
\* the decoded bytes of that text when the flag is true (the text is then
\* valid base64: "aGk=" gives "hi", "aR" LF "==" gives "i").
C12_RequestBody ==
    served = 1 =>
        IF preq.Base64
        THEN /\ DecodeString(preq.Body).ok
             /\ req.Body = DecodeString(preq.Body).bytes
             /\ DecodeString(EncodeToString(req.Body)).bytes = req.Body
             /\ Len(EncodeToString(req.Body)) = Len(StripNewlines(preq.Body))
             /\ preq.Body = <<97, 71, 107, 61>> => req.Body = <<104, 105>>
             /\ preq.Body = <<97, 82, 10, 61, 61>> => req.Body = <<105>>
        ELSE req.Body = preq.Body

C12_Witness ==
    /\ served = 1
    /\ pc = "handler"
    /\ preq.Base64
    /\ preq.Body = <<97, 82, 10, 61, 61>>
    /\ req.Body = <<105>>

(***************************************************************************)
(* C16                                                                     *)
(***************************************************************************)
HasRendered == \E i \in 1..Len(rops) : rops[i].op = "Render"

\* The method call a step of the buffer makes.
LastOp == rops[Len(rops)]

\* C16 as stated: once ToLambdaProxyResponse has produced an envelope, no
\* later Header mutation, WriteHeader or Write changes the captured state of
\* the buffer or the content of the envelope produced.
C16_RenderedIsFinal ==
    [][(HasRendered /\ LastOp'.op # "Render") => (rb' = rb /\ rendered' = rendered)]_vars

\* C16 amended: once ToLambdaProxyResponse has produced an envelope, no later
\* call changes the status, the base64 flag or the body of that envelope, and
\* a later WriteHeader on a buffer with a committed header changes nothing;
\* a later Write still appends its bytes to the buffer, and a later Header
\* mutation changes the header set, which the envelope shares with the buffer
\* when it was allocated before the rendering.
C16_RenderedEnvelopeKeepsBody ==
    [][(HasRendered /\ LastOp'.op # "Render") =>
          /\ rendered'.Status = rendered.Status
          /\ rendered'.Base64 = rendered.Base64
          /\ rendered'.Body = rendered.Body
          /\ (LastOp'.op = "WriteHeader" /\ rb.wroteHeader) => rb' = rb
          /\ LastOp'.op = "Write" =>
                /\ rb'.buf = rb.buf \o LastOp'.bytes
                /\ rb'.header = rb.header
          /\ LastOp'.op = "Header" => rb'.buf = rb.buf /\ rb'.statusCode = rb.statusCode
          /\ rendered'.Header = IF rendered.Header.isNil THEN NilHeader ELSE rb'.header
      ]_vars

C16_Witness ==
    /\ Len(rops) = 4
    /\ rops[1].mut = "set" /\ rops[1].val = "application/json"
    /\ rops[2].op = "Write" /\ rops[2].bytes = <<104, 105>>
    /\ rops[3].op = "Render"
    /\ rops[4].mut = "set" /\ rops[4].val = "text/plain"
    /\ rendered.Body = <<104, 105>>
    /\ ~rendered.Base64
    /\ rendered.Header.m[ContentTypeKey] = <<"text/plain">>

(***************************************************************************)
(* C17                                                                     *)
(***************************************************************************)
\* C17: in every state of the buffer a call of ToLambdaProxyResponse leaves
\* the status code, the header set, the body buffer and the header-written
\* flag as they are, and a call that directly follows another returns an
\* equal envelope.
C17_RenderIdempotent ==
    [][LastOp'.op = "Render" =>
          /\ rb'.statusCode = rb.statusCode
          /\ rb'.header = rb.header
          /\ rb'.buf = rb.buf
          /\ rb'.wroteHeader = rb.wroteHeader
          /\ (Len(rops) > 0 /\ LastOp.op = "Render") => rendered' = rendered
          /\ rendered' = ToLambdaProxyResponse(rb')
      ]_vars

C17_Witness ==
    /\ Len(rops) = 4
    /\ rops[1].code = 404 /\ rops[1].op = "WriteHeader"
    /\ rops[2].op = "Write" /\ rops[2].bytes = <<104, 105>>
    /\ rops[3].op = "Render"
    /\ rops[4].op = "Render"
    /\ rb.buf = <<104, 105>>
    /\ rendered.Status = 404
    /\ rendered.Body = <<97, 71, 107, 61>>

(***************************************************************************)
(* C18                                                                     *)
(***************************************************************************)
BufferWritten == \E i \in 1..Len(rops) : rops[i].op = "Write"

\* C18: under any sequence of calls the header-written flag never returns
\* from true to false, and once a Write has been made, of zero bytes or more,
\* the flag is true and the stored status code is not 0.
C18_FlagMonotoneStatusSet ==
    [][/\ rb.wroteHeader => rb'.wroteHeader
       /\ BufferWritten' => (rb'.wroteHeader /\ rb'.statusCode # 0)
      ]_vars

C18_Witness ==
    /\ Len(rops) = 2
    /\ rops[1].op = "WriteHeader" /\ rops[1].code = 0
    /\ rops[2].op = "Write" /\ rops[2].bytes = <<>>
    /\ rb.wroteHeader
    /\ rb.statusCode = 200

(***************************************************************************)
(* C19                                                                     *)
(***************************************************************************)
\* The order of the steps of one invocation.
StepOrder ==
    {<<"decode", "newRequest">>, <<"decode", "done">>,
     <<"newRequest", "copyHeaders">>, <<"newRequest", "done">>,
     <<"copyHeaders", "serve">>, <<"serve", "handler">>,
     <<"handler", "rendering">>, <<"rendering", "done">>}

\* C19: the steps of an invocation come in the order decode, construct, copy
\* headers, invoke, render; the handler is invoked at most once, and only for
\* an envelope whose body decoded and whose request was constructed; an
\* envelope with both an invalid base64 body and an invalid method or URL
\* gets the decode diagnostic; and the logger is called exactly once on each
\* of the three failure paths and never on the success path.
C19_StepsInOrder ==
    /\ [][pc' # pc => <<pc, pc'>> \in StepOrder]_vars
    /\ [](/\ served <= 1
          /\ served = 1 =>
                /\ BodyDecodes
                /\ ~MethodInvalid
                /\ ParseURL(preq.Path) = "ok"
                /\ req # NoRequest
                /\ pc \in {"handler", "rendering", "done"}
          /\ pc = "done" =>
                /\ ~BodyDecodes =>
                      (resp.Body = MsgCouldNotDecodeBody /\ logs = <<LogDecode>>)
                /\ outcome \in {"badBase64", "badRequest"} => served = 0
                /\ Len(logs) = IF outcome = "ok" THEN 0 ELSE 1)

C19_Witness ==
    /\ pc = "done"
    /\ ~BodyDecodes
    /\ MethodInvalid
    /\ ParseURL(preq.Path) # "ok"
    /\ resp.Body = MsgCouldNotDecodeBody
    /\ Len(logs) = 1

(***************************************************************************)
(* C15                                                                     *)
(***************************************************************************)
\* The mode the process is asked for: the variable's text without the
\* blanks around it, in lower case.
RequestedMode == ToLowerString(TrimSpace(environ.mode))

ModeUnknown == RequestedMode \notin {ModeLambda, ModeHttp, <<>>}

AddrMissing == RequestedMode \in {ModeHttp, <<>>} /\ ~environ.addrSet

\* C15: when the mode is not a recognised value, or the mode is HTTP and the
\* address variable is not set, Start returns the error of ConfigFromEnv and
\* neither lambda.Start nor ListenAndServe is ever called; in lambda mode a
\* missing address is no error and the lambda transport is the one started.
C15_BadConfigStartsNothing ==
    /\ (ModeUnknown \/ AddrMissing) =>
          /\ transport = "none"
          /\ spc \in {"start", "returned"}
          /\ spc = "returned" =>
                /\ startErr.msg = "could not start handler"
                /\ startErr.cause =
                      IF ModeUnknown
                      THEN "incorrect CONNECT_SERVER_MODE environment value"
                      ELSE "missing CONNECT_SERVER_ADDR environment value"
    /\ (RequestedMode = ModeLambda /\ spc # "start") =>
          /\ startErr = NoError
          /\ spc \in {"configured", "serving"}
          /\ transport \in {"none", "lambda"}
    /\ transport = "http" => (RequestedMode \in {ModeHttp, <<>>} /\ environ.addrSet)

C15_Witness ==
    /\ spc = "returned"
    /\ environ.mode = <<32, 72, 84, 84, 80, 10>>
    /\ ~environ.addrSet
    /\ transport = "none"
    /\ startErr.cause = "missing CONNECT_SERVER_ADDR environment value"

(***************************************************************************)
(* C13                                                                     *)
(***************************************************************************)
RECURSIVE ApplyCalls(_, _)
\* The buffer after the calls cs, made in order on the buffer o.
ApplyCalls(o, cs) ==
    IF Len(cs) = 0 THEN o ELSE ApplyCalls(ApplyCall(o, cs[1]), Tail(cs))

\* The envelope handleLambdaReq returns for the envelope p and the handler
\* script when no other invocation runs.
Alone(p, script) ==
    IF p.Base64 /\ ~DecodeString(p.Body).ok
    THEN errorResponse(StatusBadRequest, MsgCouldNotDecodeBody)
    ELSE IF NewRequestWithContext(p.HttpMethod, p.Path, <<>>).err # ""
    THEN errorResponse(StatusBadRequest, MsgCouldNotCreateRequest)
    ELSE LET o == ApplyCalls(NewResponseBuffer, script)
         IN  IF ~o.wroteHeader
             THEN errorResponse(StatusInternalServerError, MsgInternalServerError)
             ELSE ToLambdaProxyResponse(o)

\* The invocation i has called its handler.
Serving(i) == inv[i].pc \in {"handler", "rendering", "done"} /\ inv[i].buf # 0

\* C13: invocations that run concurrently on one handler value, in any
\* interleaving of their steps, are independent: each uses a buffer of its
\* own, that buffer holds exactly what the invocation's own handler has
\* written so far, and the envelope an invocation returns is the envelope it
\* returns when it runs alone.
C13_InvocationsIndependent ==
    \A i \in Invocations :
        /\ \A j \in Invocations \ {i} :
              (Serving(i) /\ Serving(j)) => inv[i].buf # inv[j].buf
        /\ inv[i].pc \in {"handler", "rendering"} =>
              heap[inv[i].buf] =
                 ApplyCalls(NewResponseBuffer, SubSeq(inv[i].script, 1, inv[i].done))
        /\ inv[i].pc = "done" =>
              /\ inv[i].err = ""
              /\ inv[i].resp = Alone(inv[i].preq, inv[i].script)

C13_Witness ==
    /\ inv[1].pc = "done"
    /\ inv[1].outcome = "ok"
    /\ inv[1].resp.Status = 404
    /\ inv[1].resp.Body = <<104, 105>>
    /\ inv[2].pc = "handler"
    /\ inv[2].done = 2
    /\ heap[inv[2].buf].buf = <<>>

(***************************************************************************)
(* C14                                                                     *)
(***************************************************************************)
\* The envelopes agree on the fields handleLambdaReq reads.
SameReadFields(p, q) ==
    /\ p.Path = q.Path
    /\ p.HttpMethod = q.HttpMethod
    /\ p.Headers = q.Headers
    /\ p.MultiValueHeaders = q.MultiValueHeaders
    /\ p.Body = q.Body
    /\ p.Base64 = q.Base64

\* The envelopes differ in the fields handleLambdaReq does not read.
DifferUnread(p, q) ==
    /\ p.RequestContext # q.RequestContext
    /\ p.QueryStringParameters # q.QueryStringParameters
    /\ p.MultiValueQueryStringParameters # q.MultiValueQueryStringParameters
    /\ p.PathParameters # q.PathParameters
    /\ p.StageVariables # q.StageVariables
    /\ p.Resource # q.Resource

\* The request of invocation i is built and its headers are copied.
Materialized(i) ==
    /\ inv[i].pc \in {"serve", "handler", "rendering", "done"}
    /\ inv[i].outcome \notin {"badBase64", "badRequest"}

\* Two names of the map are one header name written in different case.
CaseClash(m) ==
    \E k1, k2 \in DOMAIN m :
        k1 # k2 /\ CanonicalMIMEHeaderKey(k1) = CanonicalMIMEHeaderKey(k2)

\* The two value lists hold the same values the same number of times.
SameValues(a, b) ==
    /\ Len(a) = Len(b)
    /\ \A i \in 1..Len(a) :
          Cardinality({j \in 1..Len(a) : a[j] = a[i]})
             = Cardinality({j \in 1..Len(b) : b[j] = a[i]})

\* Pairs of invocations whose envelopes agree on the fields read and whose
\* handlers are the same.
AlikePairs ==
    {<<i, j>> \in Invocations \X Invocations :
        /\ i # j
        /\ SameReadFields(inv[i].preq, inv[j].preq)
        /\ inv[i].script = inv[j].script}

\* C14 as stated: two envelopes that agree on path, method, both header
\* maps, body and base64 flag yield the same request, and with the same
\* deterministic handler the same returned envelope.
C14_SameRequestSameEnvelope ==
    \A <<i, j>> \in AlikePairs :
        /\ (Materialized(i) /\ Materialized(j)) => inv[i].req = inv[j].req
        /\ (inv[i].pc = "done" /\ inv[j].pc = "done") => inv[i].resp = inv[j].resp

\* C14 amended: two such envelopes yield requests with the same method,
\* target and body and, under every header name, the same values; the
\* requests are equal when no header map holds two names that differ only in
\* case, and otherwise the values of those names may come in a different
\* order.  With the same deterministic handler, which does not read that
\* order, the returned envelopes are equal.
C14_UnreadFieldsIgnored ==
    \A <<i, j>> \in AlikePairs :
        /\ (Materialized(i) /\ Materialized(j)) =>
              /\ inv[i].req.Method = inv[j].req.Method
              /\ inv[i].req.URL = inv[j].req.URL
              /\ inv[i].req.URL = inv[i].preq.Path
              /\ inv[i].req.Body = inv[j].req.Body
              /\ DOMAIN inv[i].req.Header = DOMAIN inv[j].req.Header
              /\ \A k \in DOMAIN inv[i].req.Header :
                    SameValues(inv[i].req.Header[k], inv[j].req.Header[k])
              /\ (~CaseClash(inv[i].preq.Headers)
                    /\ ~CaseClash(inv[i].preq.MultiValueHeaders)) =>
                       inv[i].req = inv[j].req
        /\ (inv[i].pc = "done" /\ inv[j].pc = "done") => inv[i].resp = inv[j].resp

C14_Witness ==
    /\ <<1, 2>> \in AlikePairs
    /\ DifferUnread(inv[1].preq, inv[2].preq)
    /\ inv[1].pc = "done"
    /\ inv[2].pc = "done"
    /\ inv[1].outcome = "ok"
    /\ inv[1].req = inv[2].req
    /\ inv[1].req.Header[KeyUpperX] = <<"1", "2", "3">>
    /\ inv[1].resp = inv[2].resp

====
